---- MODULE Spec2Model ----
(***************************************************************************)
(* Model of adlfs/core.py: the Gen1 adapter AzureDatalakeFileSystem and    *)
(* the Gen2 adapter AzureBlobFileSystem, together with their environment   *)
(* (a clock, the identity authority that issues tokens, the remote store   *)
(* and the callers that share one Gen2 adapter).                           *)
(*                                                                         *)
(* An object's __dict__ is a function from attribute names to values; all  *)
(* values are strings ("None" for Python's None).                          *)
(***************************************************************************)
EXTENDS Integers, Sequences, FiniteSets, TLC

\* ------------------------------------------------------------- bounds
MaxTime == 2
MaxPosts == 3
MaxAuths == 2
ExpiresIn == 1

Threads == {"c1", "c2"}

None == "None"

\* ------------------------------------------------------------- dicts
EmptyDict == [k \in {} |-> None]

Put(d, k, v) == [x \in (DOMAIN d) \cup {k} |-> IF x = k THEN v ELSE d[x]]

Del(d, k) == [x \in (DOMAIN d) \ {k} |-> d[x]]

Update(d, e) == [x \in (DOMAIN d) \cup (DOMAIN e) |-> IF x \in DOMAIN e THEN e[x] ELSE d[x]]

\* ------------------------------------------------------------- paths
\* A raw path is a sequence of tokens: an optional scheme token, then (when
\* a scheme is present) the host token, then the path tokens.
Schemes == {"adl://", "abfs://", "abfss://"}

RawPaths ==
    { <<"a.csv">>,
      <<"dir", "/a.csv">>,
      <<"adl://", "store", "/a.csv">>,
      <<"abfs://", "fs@acct", "/a.csv">>,
      <<"abfss://", "fs@acct", "/dir", "/a.csv">> }

\* The filesystem arguments the callers of the Gen2 adapter pass.
FsArgs ==
    { <<"fs">>,
      <<"abfs://", "fs@acct">>,
      <<"abfss://", "fs@acct", "/dir">> }

HasScheme(p) == Len(p) > 0 /\ Head(p) \in Schemes

\* fsspec.utils.infer_storage_options as core.py uses it: with no scheme the
\* whole string is the path; with a scheme the path is what follows the host.
infer_storage_options(fn) ==
    IF HasScheme(fn)
    THEN [protocol |-> Head(fn), host |-> fn[2], path |-> SubSeq(fn, 3, Len(fn))]
    ELSE [protocol |-> "file", host |-> None, path |-> fn]

_trim_filename(fn) == infer_storage_options(fn).path

\* The remote store: the objects that exist, by normalized path.
Objects ==
    ( <<"a.csv">> :> [length |-> "42", modificationTime |-> "m1"] ) @@
    ( <<"/a.csv">> :> [length |-> "7", modificationTime |-> "m1"] ) @@
    ( <<"dir", "/a.csv">> :> [length |-> "9", modificationTime |-> "m2"] )

\* ------------------------------------------------------------- state
VARIABLES
    now,          \* the clock
    posts,        \* credential-exchange requests sent to the identity authority
    expiry,       \* identity authority: issued token -> time it expires
    blob,         \* __dict__ of the Gen2 adapter
    blobState,    \* "none" | "constructing" | "live"
    built,        \* per adapter: how it was built, the token it was given, the
                  \* credential exchanges it sent since and whether one succeeded
    frame,        \* per caller: the connect() activation it is in
    blobPickled,  \* last serialized state of the Gen2 adapter ({} before the first)
    adl,          \* __dict__ of the Gen1 adapter
    adlState,     \* "none" | "live"
    adlAuths,     \* lib.auth calls made
    pickled,      \* last serialized state of the Gen1 adapter ({} before the first)
    last          \* what the last finished operation did and handed to its
                  \* caller ({} before the first)

vars == <<now, posts, expiry, blob, blobState, built, frame, blobPickled,
          adl, adlState, adlAuths, pickled, last>>

blobVars == <<blob, blobState, frame, blobPickled>>

adlVars == <<adl, adlState, adlAuths, pickled>>

NoFrame ==
    [ctx |-> "idle", pc |-> "idle", req |-> 0, pre |-> EmptyDict, fields |-> {},
     token |-> None, token_type |-> None]

NoBuild == [how |-> "none", refreshed |-> FALSE, supplied |-> None, posts |-> 0]

Session(d) == [k \in (DOMAIN d) \cap {"token", "token_type"} |-> d[k]]

Valid(tok) == tok \in DOMAIN expiry /\ now < expiry[tok]

AllIdle == \A t \in Threads : frame[t].pc = "idle"

Init ==
    /\ now = 0
    /\ posts = 0
    /\ expiry = ("T0" :> ExpiresIn)
    /\ blob = EmptyDict
    /\ blobState = "none"
    /\ built = [blob |-> NoBuild, adl |-> NoBuild]
    /\ frame = [t \in Threads |-> NoFrame]
    /\ blobPickled = {}
    /\ adl = EmptyDict
    /\ adlState = "none"
    /\ adlAuths = 0
    /\ pickled = {}
    /\ last = {}

Tick ==
    /\ now < MaxTime
    /\ now' = now + 1
    /\ UNCHANGED <<posts, expiry, built, last>>
    /\ UNCHANGED blobVars
    /\ UNCHANGED adlVars

\* ------------------------------------------------------------- Gen2: AzureBlobFileSystem
Full == {"token_type", "expires_in", "ext_expires_in", "access_token"}

\* What the identity authority (or the transport) can answer to the POST.
\* token_type is what the authority chose to send ("Bearer" or "bearer").
PostResponses ==
    { [kind |-> "json", status |-> 200, fields |-> Full, token_type |-> "Bearer"],
      [kind |-> "json", status |-> 200, fields |-> Full, token_type |-> "bearer"],
      [kind |-> "json", status |-> 200, fields |-> Full \ {"ext_expires_in"},
       token_type |-> "Bearer"],
      [kind |-> "json", status |-> 200, fields |-> Full \ {"expires_in"},
       token_type |-> "bearer"],
      [kind |-> "json", status |-> 200, fields |-> Full \ {"access_token"},
       token_type |-> "Bearer"],
      [kind |-> "json", status |-> 400, fields |-> {}, token_type |-> None],
      [kind |-> "nonjson", status |-> 500, fields |-> {}, token_type |-> None],
      [kind |-> "transport", status |-> 0, fields |-> {}, token_type |-> None] }

Entry1 == [name |-> "a/b.txt", contentLength |-> "42", isDirectory |-> FALSE]

\* What the storage endpoint (or the transport) can answer to the GET.
GetResponses ==
    { [kind |-> "json", status |-> 200, entries |-> <<>>],
      [kind |-> "json", status |-> 200, entries |-> <<Entry1>>],
      [kind |-> "json", status |-> 404, entries |-> <<>>],
      [kind |-> "nonjson", status |-> 500, entries |-> <<>>],
      [kind |-> "transport", status |-> 0, entries |-> <<>>] }

\* connect(), lines 133-139: build the request and send the POST.
connect_send(t, ctx, d) ==
    /\ posts' = posts + 1
    /\ frame' = [frame EXCEPT ![t] =
                    [ctx |-> ctx, pc |-> "posted", req |-> posts + 1,
                     pre |-> Session(d), fields |-> {}, token |-> None,
                     token_type |-> None]]

\* An exception leaves connect(): the caller sees it; when it leaves __init__
\* too, the half-built object is never handed out.
connect_raise(t, exc, d) ==
    /\ last' = {[kind |-> "connect", ctx |-> frame[t].ctx, outcome |-> "raise",
                 exc |-> exc, pre |-> frame[t].pre, post |-> Session(d),
                 fields |-> frame[t].fields, token |-> frame[t].token,
                 token_type |-> frame[t].token_type]}
    /\ frame' = [frame EXCEPT ![t] = NoFrame]
    /\ IF frame[t].ctx = "init"
       THEN /\ blob' = EmptyDict
            /\ blobState' = "none"
            /\ built' = [built EXCEPT !.blob = NoBuild]
       ELSE /\ blob' = d
            /\ UNCHANGED <<blobState, built>>

\* __init__, lines 120-127: store the arguments, then connect() sends its POST.
BlobInit(t, tok) ==
    /\ blobState = "none"
    /\ AllIdle
    /\ posts < MaxPosts
    /\ blob' = ( "tenant_id" :> "tenant" ) @@ ( "client_id" :> "client" ) @@
               ( "client_secret" :> "secret" ) @@ ( "storage_account" :> "acct" ) @@
               ( "token" :> tok ) @@ ( "token_type" :> None )
    /\ blobState' = "constructing"
    /\ built' = [built EXCEPT !.blob =
                    [how |-> "ctor", refreshed |-> FALSE, supplied |-> tok, posts |-> 1]]
    /\ connect_send(t, "init", blob')
    /\ UNCHANGED <<now, expiry, blobPickled, last>>
    /\ UNCHANGED adlVars

\* connect() called by a caller on the live adapter: it sends its POST.
Connect(t) ==
    /\ blobState = "live"
    /\ frame[t].pc = "idle"
    /\ posts < MaxPosts
    /\ connect_send(t, "call", blob)
    /\ built' = [built EXCEPT !.blob.posts = @ + 1]
    /\ UNCHANGED <<now, expiry, blob, blobState, blobPickled, last>>
    /\ UNCHANGED adlVars

\* connect(), lines 139-140: the response arrives, .json() parses it and
\* token_type is stored.
ConnectRecv(t, r) ==
    /\ frame[t].pc = "posted"
    /\ IF r.kind = "transport"
       THEN connect_raise(t, "ConnectionError", blob) /\ UNCHANGED expiry
       ELSE IF r.kind = "nonjson"
       THEN connect_raise(t, "ValueError", blob) /\ UNCHANGED expiry
       ELSE IF "token_type" \notin r.fields
       THEN connect_raise(t, "KeyError", blob) /\ UNCHANGED expiry
       ELSE LET tok == IF "access_token" \in r.fields
                       THEN "T" \o ToString(frame[t].req) ELSE None
            IN /\ blob' = Put(blob, "token_type", r.token_type)
               /\ frame' = [frame EXCEPT ![t].pc = "l141", ![t].fields = r.fields,
                                         ![t].token = tok,
                                         ![t].token_type = r.token_type]
               /\ expiry' = IF tok = None THEN expiry
                            ELSE Put(expiry, tok, now + ExpiresIn)
               /\ UNCHANGED <<blobState, built, last>>
    /\ UNCHANGED <<now, posts, blobPickled>>
    /\ UNCHANGED adlVars

\* connect(), lines 141-143, and for the constructor line 128: expires_in and
\* ext_expires_in are read into locals, then the token is stored.
ConnectFinish(t) ==
    /\ frame[t].pc = "l141"
    /\ IF {"expires_in", "ext_expires_in", "access_token"} \subseteq frame[t].fields
       THEN LET d == Put(blob, "token", frame[t].token)
            IN /\ blob' = IF frame[t].ctx = "init"
                          THEN Put(d, "dns_suffix", ".dfs.core.windows.net") ELSE d
               /\ blobState' = "live"
               /\ built' = [built EXCEPT !.blob.refreshed = TRUE]
               /\ last' = {[kind |-> "connect", ctx |-> frame[t].ctx,
                            outcome |-> "return", exc |-> None,
                            pre |-> frame[t].pre, post |-> Session(d),
                            fields |-> frame[t].fields, token |-> frame[t].token,
                 token_type |-> frame[t].token_type]}
               /\ frame' = [frame EXCEPT ![t] = NoFrame]
       ELSE connect_raise(t, "KeyError", blob)
    /\ UNCHANGED <<now, posts, expiry, blobPickled>>
    /\ UNCHANGED adlVars

\* _make_headers, lines 145-150.
_make_headers(d) ==
    [ContentType |-> "application/x-www-form-urlencoded",
     xmsversion |-> "2019-02-02",
     Authorization |-> <<"Bearer", d["token"]>>]

\* _make_base_url, lines 152-153: the argument goes into the URL as it is.
_make_base_url(d, filesystem) ==
    [account |-> d["storage_account"], suffix |-> d["dns_suffix"], path |-> filesystem]

\* requests.get, and what the caller does with the answer: ls() parses the
\* body, prints it and returns nothing; make_request() returns the response.
\* A transport failure raises in requests.get, a body that is no JSON in .json().
\* A value is [type, items]: items are the entries it holds, if it holds any.
ls_outcome(r) ==
    IF r.kind = "transport"
    THEN [outcome |-> "raise", value |-> [type |-> "ConnectionError", items |-> <<>>]]
    ELSE IF r.kind = "nonjson"
    THEN [outcome |-> "raise", value |-> [type |-> "ValueError", items |-> <<>>]]
    ELSE [outcome |-> "return", value |-> [type |-> "None", items |-> <<>>]]

make_request_outcome(r) ==
    IF r.kind = "transport"
    THEN [outcome |-> "raise", value |-> [type |-> "ConnectionError", items |-> <<>>]]
    ELSE [outcome |-> "return", value |-> [type |-> "Response", items |-> r.entries]]

\* The record of one GET: what was sent, the answer, what the caller got, and
\* the state of the Session and of the other callers when the headers were built.
Sent(op, url, headers, payload, r, res) ==
    [kind |-> "get", op |-> op, url |-> url, headers |-> headers,
     payload |-> payload, resp |-> r, outcome |-> res.outcome, value |-> res.value,
     tokenValid |-> Valid(headers.Authorization[2]),
     refreshes |-> posts' - posts,
     midRefresh |-> \E u \in Threads : frame[u].pc = "l141",
     built |-> built.blob]

\* ls(), lines 155-168.
Ls(t, filesystem, recursive, r) ==
    /\ blobState = "live"
    /\ frame[t].pc = "idle"
    /\ UNCHANGED <<now, posts, expiry, built>>
    /\ LET url == _make_base_url(blob, filesystem)
           headers == _make_headers(blob)
           payload == [resource |-> "filesystem", recursive |-> recursive]
       IN last' = {Sent("ls", url, headers, payload, r, ls_outcome(r))}
    /\ UNCHANGED blobVars
    /\ UNCHANGED adlVars

\* make_request(), lines 170-172, called with the adapter's own URL and headers.
MakeRequest(t, filesystem, r) ==
    /\ blobState = "live"
    /\ frame[t].pc = "idle"
    /\ UNCHANGED <<now, posts, expiry, built>>
    /\ last' = {Sent("make_request", _make_base_url(blob, filesystem),
                     _make_headers(blob),
                     [resource |-> "filesystem", recursive |-> FALSE],
                     r, make_request_outcome(r))}
    /\ UNCHANGED blobVars
    /\ UNCHANGED adlVars

\* AzureBlobFileSystem defines no __getstate__/__setstate__: the serialized
\* state is the instance's __dict__, and reconstruction restores it without
\* running __init__.
BlobGetState ==
    /\ blobState = "live"
    /\ blobPickled' = {blob}
    /\ UNCHANGED <<now, posts, expiry, blob, blobState, built, frame, last>>
    /\ UNCHANGED adlVars

BlobSetState ==
    /\ AllIdle
    /\ \E state \in blobPickled :
          /\ blob' = Update(EmptyDict, state)
          /\ blobState' = "live"
          /\ built' = [built EXCEPT !.blob =
                          [how |-> "setstate", refreshed |-> FALSE,
                           supplied |-> None, posts |-> 0]]
    /\ UNCHANGED <<now, posts, expiry, frame, blobPickled, last>>
    /\ UNCHANGED adlVars

\* ------------------------------------------------------------- Gen1: AzureDatalakeFileSystem
\* do_connect, lines 58-65, when lib.auth succeeds: the SDK's constructor
\* stores the credential as token and its REST interface as azure.
do_connect(d, n) ==
    Put(Put(d, "token", "cred" \o ToString(n)), "azure", "rest" \o ToString(n))

\* __init__, lines 50-56; lib.auth either returns a credential or raises.
AdlInit(ok) ==
    /\ adlState = "none"
    /\ adlAuths < MaxAuths
    /\ adlAuths' = adlAuths + 1
    /\ LET d == ( "tenant_id" :> "tenant" ) @@ ( "client_id" :> "client" ) @@
                ( "client_secret" :> "secret" ) @@ ( "store_name" :> "store" )
       IN IF ok
          THEN /\ adl' = do_connect(d, adlAuths + 1)
               /\ adlState' = "live"
               /\ built' = [built EXCEPT !.adl =
                               [how |-> "ctor", refreshed |-> TRUE,
                                supplied |-> None, posts |-> 1]]
          ELSE UNCHANGED <<adl, adlState, built>>
    /\ UNCHANGED <<now, posts, expiry, pickled, last>>
    /\ UNCHANGED blobVars

\* A call handed to the SDK with the path the adapter computed.
Delegated(op, path) ==
    [kind |-> "sdk", op |-> op, path |-> path, exists |-> path \in DOMAIN Objects, built |-> built.adl]

\* glob, lines 73-77.
AdlGlob(path) ==
    /\ adlState = "live"
    /\ last' = {Delegated("glob", _trim_filename(path))}
    /\ UNCHANGED <<now, posts, expiry, built>>
    /\ UNCHANGED adlVars
    /\ UNCHANGED blobVars

\* open, lines 79-82.
AdlOpen(path, mode) ==
    /\ adlState = "live"
    /\ last' = {Delegated("open:" \o mode, _trim_filename(path))}
    /\ UNCHANGED <<now, posts, expiry, built>>
    /\ UNCHANGED adlVars
    /\ UNCHANGED blobVars

\* size, lines 88-90.
AdlSize(path) ==
    /\ adlState = "live"
    /\ last' = {Delegated("info", _trim_filename(path))}
    /\ UNCHANGED <<now, posts, expiry, built>>
    /\ UNCHANGED adlVars
    /\ UNCHANGED blobVars

\* ukey, lines 84-86: the name tokenize is looked up before its argument
\* self.info(...) is evaluated; the module neither defines nor imports it.
ModuleNames ==
    {"print_function", "division", "absolute_import", "logging", "requests",
     "datetime", "lib", "AzureDLFileSystem", "AbstractFileSystem",
     "infer_storage_options", "logger", "AzureDatalakeFileSystem",
     "AzureBlobFileSystem"}

ukey(path) ==
    LET adl_path == _trim_filename(path)
    IN IF "tokenize" \notin ModuleNames
       THEN [kind |-> "ukey", path |-> adl_path, exists |-> adl_path \in DOMAIN Objects,
             outcome |-> "raise", value |-> "NameError", called |-> FALSE]
       ELSE IF adl_path \notin DOMAIN Objects
       THEN [kind |-> "ukey", path |-> adl_path, exists |-> FALSE,
             outcome |-> "raise", value |-> "FileNotFoundError", called |-> TRUE]
       ELSE [kind |-> "ukey", path |-> adl_path, exists |-> TRUE, outcome |-> "return",
             value |-> "key:" \o Objects[adl_path].modificationTime, called |-> TRUE]

AdlUkey(path) ==
    /\ adlState = "live"
    /\ last' = {ukey(path)}
    /\ UNCHANGED <<now, posts, expiry, built>>
    /\ UNCHANGED adlVars
    /\ UNCHANGED blobVars

\* __getstate__, lines 92-97, as the pair (the instance's __dict__ after the
\* call, the returned dic).
getstate_nocopy(d) ==
    [self |-> Del(Del(d, "token"), "azure"), ret |-> Del(Del(d, "token"), "azure")]

getstate(d) ==
    LET dic == d
    IN [self |-> d, ret |-> Del(Del(dic, "token"), "azure")]

AdlGetState ==
    /\ adlState = "live"
    /\ adl' = getstate(adl).self
    /\ pickled' = {getstate(adl).ret}
    /\ UNCHANGED <<now, posts, expiry, built, adlState, adlAuths, last>>
    /\ UNCHANGED blobVars

\* __setstate__, lines 99-103, on the new instance pickle creates: the state
\* becomes its __dict__, then do_connect authenticates (or raises).
AdlSetState(ok) ==
    /\ adlAuths < MaxAuths
    /\ adlAuths' = adlAuths + 1
    /\ \E state \in pickled :
          IF ok
          THEN /\ adl' = do_connect(Update(EmptyDict, state), adlAuths + 1)
               /\ adlState' = "live"
               /\ built' = [built EXCEPT !.adl =
                               [how |-> "setstate", refreshed |-> TRUE,
                                supplied |-> None, posts |-> 1]]
          ELSE UNCHANGED <<adl, adlState, built>>
    /\ UNCHANGED <<now, posts, expiry, pickled, last>>
    /\ UNCHANGED blobVars

\* ------------------------------------------------------------- specifications
\* The Gen2 adapter's operations as the callers in T invoke them.
BlobOps(T) ==
    \/ \E t \in T, tok \in {None, "T0"} : BlobInit(t, tok)
    \/ \E t \in T : Connect(t)
    \/ \E t \in T, r \in PostResponses : ConnectRecv(t, r)
    \/ \E t \in T : ConnectFinish(t)
    \/ \E t \in T, p \in FsArgs, rec \in BOOLEAN, r \in GetResponses : Ls(t, p, rec, r)

BlobRequests(T) ==
    \E t \in T, p \in FsArgs, r \in GetResponses : MakeRequest(t, p, r)

BlobPickle ==
    \/ BlobGetState
    \/ BlobSetState

AdlOps ==
    \/ \E ok \in BOOLEAN : AdlInit(ok)
    \/ \E p \in RawPaths : AdlGlob(p)
    \/ \E p \in RawPaths, mode \in {"rb", "wb"} : AdlOpen(p, mode)
    \/ \E p \in RawPaths : AdlSize(p)
    \/ \E p \in RawPaths : AdlUkey(p)
    \/ AdlGetState
    \/ \E ok \in BOOLEAN : AdlSetState(ok)

\* Everything together.
Next ==
    \/ Tick
    \/ BlobOps(Threads)
    \/ BlobRequests(Threads)
    \/ BlobPickle
    \/ AdlOps

Spec == Init /\ [][Next]_vars

\* One caller of the Gen2 adapter, and the clock.
NextBlob ==
    \/ Tick
    \/ BlobOps({"c1"})
    \/ BlobRequests({"c1"})

SpecBlob == Init /\ [][NextBlob]_vars

\* One caller of the Gen2 adapter that also serializes and reconstructs it.
NextPickle ==
    \/ BlobOps({"c1"})
    \/ BlobPickle

SpecPickle == Init /\ [][NextPickle]_vars

\* Several callers sharing the Gen2 adapter.
NextShared == BlobOps(Threads)

SpecShared == Init /\ [][NextShared]_vars

\* The Gen1 adapter.
NextAdl == AdlOps

SpecAdl == Init /\ [][NextAdl]_vars

\* ------------------------------------------------------------- claims
Gets == {e \in last : e.kind = "get"}

Connects == {e \in last : e.kind = "connect"}

\* C1: every GET the adapter issues carries a token that is present and has
\* not expired at the moment the call is sent.
C1_CallsCarryValidToken ==
    \A e \in Gets : e.tokenValid

\* C2: obtaining the token for a call sends a credential exchange exactly
\* when the Session is absent or expired at that call, and then exactly one.
C2_RefreshIffExpired ==
    \A e \in Gets :
        /\ e.refreshes \in {0, 1}
        /\ (e.refreshes = 1) <=> ~e.tokenValid

\* C3: no serialized adapter state holds a Session field (token, token_type,
\* the connection object), every one keeps the credentials and the account
\* name, and an adapter rebuilt from such a state has refreshed before its
\* first remote call.
Credentials == {"tenant_id", "client_id", "client_secret"}

C3_SerializedStateHasNoSession ==
    /\ \A state \in pickled \cup blobPickled :
          /\ (DOMAIN state) \cap {"token", "token_type", "azure"} = {}
          /\ Credentials \subseteq DOMAIN state
          /\ (DOMAIN state) \cap {"store_name", "storage_account"} # {}
    /\ \A e \in last :
          (e.kind \in {"get", "sdk"} /\ e.built.how = "setstate") => e.built.refreshed

\* C4: an adapter constructed with a pre-fetched token sends no credential
\* exchange while it is constructed and comes out holding the supplied token.
C4_PrefetchedTokenSkipsRefresh ==
    /\ (blobState = "constructing" /\ built.blob.supplied # None)
          => built.blob.posts = 0
    /\ \A e \in Connects :
          (e.ctx = "init" /\ e.outcome = "return" /\ e.pre["token"] # None)
             => e.post["token"] = e.pre["token"]

\* C5: a refresh either succeeds, and then the response held every consumed
\* field and the Session holds that response's token and token type, or it
\* fails and leaves every Session field as it was before the call.
Consumed == {"token_type", "access_token", "expires_in"}

C5_RefreshAllOrNothing ==
    \A e \in Connects :
        e.ctx = "call" =>
            \/ /\ e.outcome = "return"
               /\ Consumed \subseteq e.fields
               /\ e.post["token"] = e.token
               /\ e.post["token_type"] = e.token_type
            \/ /\ e.outcome = "raise"
               /\ e.post = e.pre

\* C6: with several callers on one adapter, at most one credential exchange
\* is in flight at any time, and no GET is built while a refresh has written
\* the token type and not yet the token.
InFlight == {t \in Threads : frame[t].pc = "posted"}

C6_RefreshesSerialized ==
    /\ Cardinality(InFlight) <= 1
    /\ \A e \in Gets : ~e.midRefresh

\* C7: ls sends resource=filesystem; after a 2xx answer it returns the entries
\* of the body, after any other status it raises RemoteError, after a
\* transport failure it raises NetworkError.
C7_LsHandsResultToCaller ==
    \A e \in Gets :
        e.op = "ls" =>
            /\ e.payload.resource = "filesystem"
            /\ IF e.resp.kind = "transport"
               THEN e.outcome = "raise" /\ e.value.type = "NetworkError"
               ELSE IF e.resp.status = 200
               THEN /\ e.outcome = "return"
                    /\ e.value.type = "Entries"
                    /\ e.value.items = e.resp.entries
               ELSE e.outcome = "raise" /\ e.value.type = "RemoteError"

\* C8: the path of every remote call, of either adapter, has no scheme prefix.
C8_NoSchemeInRemoteCall ==
    \A e \in last :
        /\ e.kind = "get" => ~HasScheme(e.url.path)
        /\ e.kind = "sdk" => ~HasScheme(e.path)

\* C9: ukey of an object that exists returns a key, and the key is determined
\* by the object's modification timestamp alone.
C9_UkeyReturnsKeyOfTimestamp ==
    \A e \in last :
        (e.kind = "ukey" /\ e.exists) =>
            /\ e.outcome = "return"
            /\ e.value = "key:" \o Objects[e.path].modificationTime

\* C10: a step of __getstate__ changes nothing of the Gen1 adapter (its
\* token, its connection object, its credentials) nor anything else but the
\* serialized state it returns.
C10_GetStateLeavesAdapter ==
    [][AdlGetState =>
          /\ adl' = adl
          /\ UNCHANGED <<now, posts, expiry, built, adlState, adlAuths, last>>
          /\ UNCHANGED blobVars]_vars

\* A live Gen1 adapter that has been serialized and still holds its token,
\* its connection object and its credentials.
C10_Witness ==
    /\ adlState = "live"
    /\ pickled # {}
    /\ {"token", "azure"} \cup Credentials \subseteq DOMAIN adl
    /\ \E state \in pickled : "token" \notin DOMAIN state

====
